---- MODULE Spec2Model ----
(***************************************************************************)
(* A model of runn's operator (operator.go) and of its database runner.    *)
(*                                                                         *)
(* An operator is a record; `ops` is the list of operators of the process  *)
(* and `cur` the index of the one whose method is executing.  Go's 0-based *)
(* step index `i` is kept 0-based; the TLA+ sequence element is i + 1.      *)
(***************************************************************************)
EXTENDS Integers, Sequences, FiniteSets, TLC

VARIABLES
    ops,      \* the operators; ops[cur] is the receiver `o`
    cur,      \* index of the operator whose method is executing
    bk,       \* New's book (the local bk of New), cleared when New returns
    pc,       \* position of the control flow
    i,        \* operator.run's loop variable (0-based)
    ret,      \* what New / operator.run returned (an error value)
    call,     \* the step config New's loop handled last, and the outcome
    trace,    \* history: every guard evaluation, runner invocation and Run call
    batchRet, \* what operators.RunN returned
    db        \* the locals of dbRunner.Run and the calls it made on the client

vars == <<ops, cur, bk, pc, i, ret, call, trace, batchRet, db>>

\* ------------------------------------------------------------------ bounds

MaxSteps == 2
MaxOps == 3
MaxRecords == 2
MaxStmts == 3
MaxScript == 6
MaxPlaceholders == 2
MaxStrLen == 3
MaxResults == 2
MaxStepResults == 2

\* --------------------------------------------------------------- constants

testRunnerKey == "test"
dumpRunnerKey == "dump"
bindRunnerKey == "bind"
includeRunnerKey == "include"
execRunnerKey == "exec"

\* The runners the book registers (the contents of o.httpRunners and
\* o.dbRunners after New's runner loop).
httpRunners == {"req"}
dbRunners == {"db"}

\* -------------------------------------------------------------------- maps

EmptyMap == [k \in {} |-> ""]
MapDelete(m, k) == [x \in (DOMAIN m) \ {k} |-> m[x]]
MapPut(m, k, v) == [x \in (DOMAIN m) \cup {k} |-> IF x = k THEN v ELSE m[x]]

\* ------------------------------------------------------------------ errors

NoName == [desc |-> "", mode |-> "", key |-> "", idx |-> -1]
NilErr == [msg |-> "nil", name |-> NoName]
Err(msg) == [msg |-> msg, name |-> NoName]
\* fmt.Errorf("<msg> on %s: %v", o.stepName(i), err)
ErrOn(msg, name) == [msg |-> msg, name |-> name]

\* ------------------------------------------------------------------- store

\* A value recorded for a step: the output of the primary runner of step
\* `step` of operator `op`, or Go's nil.
Result(op, step) == [kind |-> "result", op |-> op, step |-> step]
NilValue == [kind |-> "nil", op |-> 0, step |-> -1]

storeVarsKey == "vars"
storeStepsKey == "steps"

\* A value of the flattened view: the seed variables, one of the two step
\* storages, or a bound variable.
View(kind, list, map) == [kind |-> kind, list |-> list, map |-> map]

\* store.toMap
toMap(s) ==
    LET base == MapPut(MapPut(EmptyMap, storeVarsKey, View("vars", <<>>, s.vars)),
                       storeStepsKey,
                       IF s.useMaps THEN View("stepMaps", <<>>, s.stepMaps)
                       ELSE View("steps", s.steps, EmptyMap))
    IN  [k \in (DOMAIN base) \cup (DOMAIN s.bindVars) |->
            IF k \in DOMAIN s.bindVars THEN View("bound", <<s.bindVars[k]>>, EmptyMap)
            ELSE base[k]]

\* Which storage operator.record writes to.
recordTarget(o) == IF o.useMaps /\ Len(o.steps) > 0 THEN "stepMaps" ELSE "steps"

\* The index record uses in named mode: len(o.store.stepMaps).
recordIndex(o) == Cardinality(DOMAIN o.store.stepMaps)

\* operator.record.  panic: the index expression o.steps[len(stepMaps)] is out
\* of range.
record(o, v) ==
    IF recordTarget(o) = "stepMaps"
    THEN IF recordIndex(o) >= Len(o.steps)
         THEN [panic |-> TRUE, o |-> o]
         ELSE [panic |-> FALSE,
               o |-> [o EXCEPT !.store.stepMaps =
                        MapPut(@, o.steps[recordIndex(o) + 1].key, v)]]
    ELSE [panic |-> FALSE, o |-> [o EXCEPT !.store.steps = Append(@, v)]]

\* ------------------------------------------------------------------ expand

\* A value an expression evaluates to: its Go type and, for a string, its
\* characters, for an integer, its decimal digits.
Value(type, str) == [type |-> type, str |-> str]
NilVal == Value("nil", <<>>)

\* o, err := expr.Eval(m[1], store): a value, or nil and an error.
Evaluated(v) == [v |-> v, err |-> FALSE]
EvalError == [v |-> NilVal, err |-> TRUE]

Digits == {"0", "1"}
IsDigits(str) == Len(str) >= 1 /\ \A k \in 1..Len(str) : str[k] \in Digits

\* numberRe = ^[+-]?\d+(?:\.\d+)?$
numberRe(str) ==
    LET body == IF Len(str) >= 1 /\ str[1] \in {"+", "-"} THEN Tail(str) ELSE str
    IN  \/ IsDigits(body)
        \/ \E p \in 2..(Len(body) - 1) :
              /\ body[p] = "."
              /\ IsDigits(SubSeq(body, 1, p - 1))
              /\ IsDigits(SubSeq(body, p + 1, Len(body)))

\* fmt.Sprintf("'%s'", v)
quoted(str) == <<"'">> \o str \o <<"'">>

\* strconv.Itoa(int(v)): the decimal digits of the integer.
Itoa(v) == v.str

\* One match of the loop of replacefunc without the memory of an earlier
\* error: reperr is what this match alone makes it.
replaceMatchForgets(st, m) ==
    IF m.v.type = "string"
    THEN [reperr |-> NilErr,
          news |-> Append(st.news, IF numberRe(m.v.str) THEN quoted(m.v.str) ELSE m.v.str)]
    ELSE IF m.v.type \in {"int64", "int"}
    THEN [reperr |-> NilErr, news |-> Append(st.news, Itoa(m.v))]
    ELSE [reperr |-> Err("invalid format"), news |-> Append(st.news, <<>>)]

\* One match of the loop of replacefunc: m is what the expression of the
\* match evaluated to.  reperr keeps the error of an earlier match; news
\* collects the replacement texts.
replaceMatch(st, m) ==
    LET reperr == IF m.err THEN Err("eval") ELSE st.reperr
    IN  IF m.v.type = "string"
        THEN [reperr |-> reperr,
              news |-> Append(st.news,
                              IF numberRe(m.v.str) THEN quoted(m.v.str) ELSE m.v.str)]
        ELSE IF m.v.type \in {"int64", "int"}
        THEN [reperr |-> reperr, news |-> Append(st.news, Itoa(m.v))]
        ELSE [reperr |-> Err("invalid format"), news |-> Append(st.news, <<>>)]

\* The matches of the document, in order.
RECURSIVE replacefunc(_, _, _)
replacefunc(in, k, st) ==
    IF k > Len(in) THEN st ELSE replacefunc(in, k + 1, replaceMatch(st, in[k]))

\* yaml.Unmarshal of one scalar of the expanded document: a single-quoted
\* text is the string between the quotes, a plain text of digits with an
\* optional sign an integer, one with a decimal point a float, any other
\* plain text a string.
IsFloat(str) ==
    LET body == IF Len(str) >= 1 /\ str[1] \in {"+", "-"} THEN Tail(str) ELSE str
    IN  \E p \in 1..Len(body) :
          /\ body[p] = "."
          /\ Len(body) >= 2
          /\ \A k \in (1..Len(body)) \ {p} : body[k] \in Digits

Unmarshal(text) ==
    IF Len(text) >= 2 /\ text[1] = "'" /\ text[Len(text)] = "'"
    THEN Value("string", SubSeq(text, 2, Len(text) - 1))
    ELSE IF text = <<>> THEN NilVal
    ELSE IF numberRe(text) /\ ~IsFloat(text)
    THEN Value(IF text[1] = "-" THEN "int64" ELSE "uint64",
               IF text[1] = "+" THEN Tail(text) ELSE text)
    ELSE IF IsFloat(text) THEN Value("float64", text)
    ELSE Value("string", text)

\* operator.expand of a payload.  The payload is given by its placeholders,
\* each a scalar of its own: in[k] is what the expression of placeholder k
\* evaluates to against the store.  The result is nil and the error, or the
\* values the expanded document has at the placeholders.
expand(in) ==
    LET st == replacefunc(in, 1, [reperr |-> NilErr, news |-> <<>>])
    IN  IF st.reperr # NilErr
        THEN [out |-> <<>>, err |-> st.reperr]
        ELSE [out |-> [k \in 1..Len(in) |-> Unmarshal(st.news[k])], err |-> NilErr]

\* What the expressions of the scenarios evaluate to: a plain string, a
\* string of digits, an int, an int64, an unsigned integer, a float, a
\* boolean, nil, and an evaluation error.
RunResults ==
    {Evaluated(Value("string", <<"a">>)), Evaluated(Value("string", <<"1">>)),
     Evaluated(Value("int", <<"1">>)), Evaluated(Value("int64", <<"1">>)),
     Evaluated(Value("uint64", <<"1">>)), Evaluated(Value("float64", <<"1", ".", "1">>)),
     Evaluated(Value("bool", <<>>)), Evaluated(NilVal), EvalError}

\* A payload (s.httpRequest, s.dbQuery, s.execCommand) is the sequence of
\* its placeholders, each given by the results its expression can evaluate
\* to against a store.  AnyPayload has one placeholder of an expression of
\* which nothing is known.
AnyPayload == <<RunResults>>

\* The evaluations of the placeholders of a payload.
evaluations(payload) ==
    {m \in [1..Len(payload) -> RunResults] : \A k \in 1..Len(payload) : m[k] \in payload[k]}

\* ------------------------------------------------------------------- steps

\* &step{key: key}
newStep(key) ==
    [key |-> key, runnerKey |-> "",
     httpRunner |-> FALSE, dbRunner |-> FALSE, execRunner |-> FALSE, payload |-> <<>>,
     includeRunner |-> FALSE, includePath |-> "",
     testRunner |-> FALSE, testCond |-> "",
     dumpRunner |-> FALSE, dumpCond |-> "",
     bindRunner |-> FALSE, bindCond |-> FALSE]

\* The keys of a step config that are not test, dump or bind.
customKeys(s) == (DOMAIN s) \ {testRunnerKey, dumpRunnerKey, bindRunnerKey}

validateStepKeys(s) ==
    IF DOMAIN s = {} THEN Err("step must specify at least one runner")
    ELSE IF Cardinality(customKeys(s)) > 1
         THEN Err("runners that cannot be running at the same time are specified")
         ELSE NilErr

\* The key AppendStep's third block ("bind runner") looks up in the config.
bindLookupKey == dumpRunnerKey

\* The config as AppendStep's pop sees it: after the test, dump and bind
\* blocks deleted what they handled.
remaining(s) ==
    LET s1 == IF testRunnerKey \in DOMAIN s THEN MapDelete(s, testRunnerKey) ELSE s
        s2 == IF dumpRunnerKey \in DOMAIN s1 THEN MapDelete(s1, dumpRunnerKey) ELSE s1
    IN  IF bindLookupKey \in DOMAIN s2 THEN MapDelete(s2, bindRunnerKey) ELSE s2

\* pop: ranging over a Go map yields any one of its keys; "" when it is empty.
popChoices(s) == IF DOMAIN remaining(s) = {} THEN {""} ELSE DOMAIN remaining(s)

\* The step AppendStep builds from the side-runner keys of the config.
sideRunners(key, s) ==
    LET st0 == newStep(key)
        st1 == IF testRunnerKey \in DOMAIN s
               THEN [st0 EXCEPT !.testRunner = TRUE, !.testCond = s[testRunnerKey]]
               ELSE st0
        s1 == IF testRunnerKey \in DOMAIN s THEN MapDelete(s, testRunnerKey) ELSE s
        st2 == IF dumpRunnerKey \in DOMAIN s1
               THEN [st1 EXCEPT !.dumpRunner = TRUE, !.dumpCond = s1[dumpRunnerKey]]
               ELSE st1
        s2 == IF dumpRunnerKey \in DOMAIN s1 THEN MapDelete(s1, dumpRunnerKey) ELSE s1
    IN  IF bindLookupKey \in DOMAIN s2
        THEN [st2 EXCEPT !.bindRunner = TRUE, !.bindCond = TRUE]
        ELSE st2

\* A lookup that lets a key no runner answers to pass: the step is built
\* with the key and no runner.
primaryRunnerAny(st, k, v) ==
    [err |-> NilErr,
     st |-> [st EXCEPT !.runnerKey = k,
                       !.includeRunner = (k = includeRunnerKey),
                       !.includePath = IF k = includeRunnerKey THEN v ELSE "",
                       !.execRunner = (k = execRunnerKey),
                       !.httpRunner = (k \in httpRunners),
                       !.dbRunner = (k \in dbRunners)]]

\* The primary runner AppendStep attaches for the popped key k.
primaryRunner(st, k, v) ==
    IF k = includeRunnerKey
    THEN [err |-> NilErr,
          st |-> [st EXCEPT !.runnerKey = k, !.includeRunner = TRUE, !.includePath = v]]
    ELSE IF k = execRunnerKey
    THEN [err |-> NilErr,
          st |-> [st EXCEPT !.runnerKey = k, !.execRunner = TRUE, !.payload = v]]
    ELSE IF k \in httpRunners
    THEN [err |-> NilErr,
          st |-> [st EXCEPT !.runnerKey = k, !.httpRunner = TRUE, !.payload = v]]
    ELSE IF k \in dbRunners
    THEN [err |-> NilErr,
          st |-> [st EXCEPT !.runnerKey = k, !.dbRunner = TRUE, !.payload = v]]
    ELSE [err |-> Err("can not find client"), st |-> st]

\* operator.AppendStep(key, s); pk is the key pop yields.
AppendStep(o, key, s, pk) ==
    LET st == sideRunners(key, s)
        r == IF DOMAIN remaining(s) = {}
             THEN [err |-> NilErr, st |-> st]
             ELSE primaryRunner(st, pk, remaining(s)[pk])
    IN  IF r.err # NilErr
        THEN [err |-> r.err, o |-> o]
        ELSE [err |-> NilErr, o |-> [o EXCEPT !.steps = Append(@, r.st)]]

\* New, up to its step loop: the operator with no step yet.
newOperator(b) ==
    LET useMaps == Len(b.stepKeys) = b.nSteps
    IN  [steps |-> <<>>,
         store |-> [steps |-> <<>>, stepMaps |-> EmptyMap, vars |-> b.Vars,
                    bindVars |-> EmptyMap, useMaps |-> useMaps],
         useMaps |-> useMaps,
         desc |-> b.Desc,
         failFast |-> b.failFast,
         cond |-> b.If,
         skipped |-> FALSE]

\* A display name that ignores the store mode.
stepNameIndexOnly(o, n) == [desc |-> o.desc, mode |-> "index", key |-> "", idx |-> n]

stepName(o, n) ==
    IF o.useMaps
    THEN [desc |-> o.desc, mode |-> "key", key |-> o.steps[n + 1].key, idx |-> -1]
    ELSE [desc |-> o.desc, mode |-> "index", key |-> "", idx |-> n]

\* ------------------------------------------------------------------ inputs

\* The primary keys a step config may carry: a registered HTTP runner, a
\* registered DB runner, the built-in exec and include, and a key no runner
\* is registered under.
AllStepKeys == {"req", "db", "exec", "include", "ghost"}

\* The primary keys of the scenarios that are run (exec steps take the same
\* path through operator.run as db steps).
StepKeys == AllStepKeys \ {execRunnerKey}

Absent == "-"

\* The config (a Go map) with the given test and dump strings (Absent: no
\* such key), with or without a bind mapping, and with the primary keys P.
stepConfig(t, d, b, P) ==
    [k \in (IF t # Absent THEN {testRunnerKey} ELSE {})
           \cup (IF d # Absent THEN {dumpRunnerKey} ELSE {})
           \cup (IF b THEN {bindRunnerKey} ELSE {}) \cup P |->
        IF k = testRunnerKey THEN t
        ELSE IF k = dumpRunnerKey THEN d
        ELSE IF k = includeRunnerKey THEN "path"
        ELSE IF k = bindRunnerKey THEN "map"
        ELSE AnyPayload]

\* The step configs with a test string of T, a dump string of D and at most
\* two primary keys of K.
stepConfigs(T, D, K) ==
    {stepConfig(t, d, b, P) :
        t \in T, d \in D, b \in BOOLEAN,
        P \in {Q \in SUBSET K : \E x, y \in K : Q \subseteq {x, y}}}

StepConfigs == stepConfigs({Absent, "", "cond"}, {Absent, "", "cond"}, StepKeys)

\* The step configs of the construction-only specification.
ModeConfigs == stepConfigs({Absent, "cond"}, {Absent}, AllStepKeys)

StepNames == <<"a", "b", "c", "d", "e">>

\* The seed variables of the books.
SeedVars == [seed |-> "value"]

NoBook == [nSteps |-> 0, stepKeys |-> <<>>, Desc |-> "", If |-> "", failFast |-> FALSE,
           Vars |-> EmptyMap]
NoCall == [op |-> "", s |-> EmptyMap, err |-> NilErr]
NoDB == [stmts |-> <<>>, n |-> 0, out |-> "", calls |-> <<>>]

\* The books New is given: nSteps steps, of which the first nKeys have a name.
Books ==
    UNION {{[nSteps |-> n, stepKeys |-> [j \in 1..k |-> StepNames[j]], Desc |-> "s",
             If |-> c, failFast |-> FALSE, Vars |-> SeedVars] :
                k \in 0..n, c \in {"", "cond"}} :
           n \in 0..MaxSteps}

\* ----------------------------------------------------------------- actions

o == ops[cur]

\* One iteration of New's step loop, the step config drawn from C:
\* validateStepKeys, then AppendStep.
NewLoop(C) ==
    /\ pc = "new"
    /\ Len(o.steps) < bk.nSteps
    /\ \E s \in C : \E pk \in popChoices(s) :
         LET key == IF Len(bk.stepKeys) = bk.nSteps
                    THEN bk.stepKeys[Len(o.steps) + 1] ELSE ""
             v == validateStepKeys(s)
             r == AppendStep(o, key, s, pk)
             e == IF v # NilErr THEN v ELSE r.err
         IN  /\ call' = [op |-> "AppendStep", s |-> s, err |-> e]
             /\ IF e # NilErr
                THEN /\ ret' = e
                     /\ pc' = "newfailed"
                     /\ UNCHANGED ops
                ELSE /\ ops' = [ops EXCEPT ![cur] = r.o]
                     /\ UNCHANGED <<ret, pc>>
    /\ UNCHANGED <<cur, bk, i, trace, batchRet, db>>

NewAppendStep == NewLoop(StepConfigs)

\* New returns the operator.
NewReturn ==
    /\ pc = "new"
    /\ Len(o.steps) = bk.nSteps
    /\ pc' = "ready"
    /\ bk' = NoBook
    /\ call' = NoCall
    /\ UNCHANGED <<ops, cur, i, ret, trace, batchRet, db>>

\* The same iteration over every primary key.
NewAppendStepAny == NewLoop(ModeConfigs)

\* A call of o.AppendStep(key, s) on the constructed operator.
AppendStepCall ==
    /\ pc = "ready"
    /\ Len(o.steps) < MaxSteps
    /\ \E key \in {"", StepNames[Len(o.steps) + 1]} :
         \E s \in ModeConfigs : \E pk \in popChoices(s) :
            ops' = [ops EXCEPT ![cur] = AppendStep(o, key, s, pk).o]
    /\ UNCHANGED <<cur, bk, pc, i, ret, call, trace, batchRet, db>>

\* The number of o.record calls made on the constructed operator.
Records == Cardinality({k \in 1..Len(trace) : trace[k].act = "record"})

\* A call of o.record(v) on the constructed operator.
RecordCall ==
    /\ pc = "ready"
    /\ Records < MaxRecords
    /\ LET r == record(o, Result(cur, Records))
       IN  /\ trace' = Append(trace, [op |-> cur, step |-> Records, act |-> "record",
                                      ok |-> ~r.panic, val |-> "", err |-> NilErr])
           /\ IF r.panic THEN pc' = "panic" /\ UNCHANGED ops
              ELSE ops' = [ops EXCEPT ![cur] = r.o] /\ UNCHANGED pc
    /\ UNCHANGED <<cur, bk, i, ret, call, batchRet, db>>

\* An entry of the history: operator op, at step `step`, invoked `act`, which
\* succeeded or not; val is the value of a guard, err the error of a Run.
Event(act, ok) ==
    [op |-> cur, step |-> i, act |-> act, ok |-> ok, val |-> "", err |-> NilErr]
GuardEvent(ev) ==
    [op |-> cur, step |-> -1, act |-> "guard", ok |-> ev # "error", val |-> ev,
     err |-> NilErr]

\* A guard that passes on every value but false.
guardPassesLoose(ev) == ev # "false"

\* fmt.Sprintf("(%s) == true", o.cond): the guard passes when the value of
\* o.cond is the boolean true.
guardPasses(ev) == ev = "true"

\* The loop of operator.run is entered (or left at once, with no step).
EnterLoop(o2) ==
    /\ ops' = [ops EXCEPT ![cur] = o2]
    /\ i' = 0
    /\ IF Len(o2.steps) = 0
       THEN pc' = "returned" /\ ret' = NilErr
       ELSE pc' = "primary" /\ UNCHANGED ret

\* operator.run up to its loop: the scenario guard.  ev is what o.cond
\* evaluates to against the store.
RunGuard ==
    /\ pc = "ready"
    /\ IF o.cond # ""
       THEN \E ev \in {"true", "false", "other", "error"} :
              /\ trace' = Append(trace, GuardEvent(ev))
              /\ IF ev = "error"
                 THEN /\ ret' = Err("guard")
                      /\ pc' = "returned"
                      /\ UNCHANGED <<ops, i>>
                 ELSE IF ~guardPasses(ev)
                 THEN /\ ops' = [ops EXCEPT ![cur].skipped = TRUE]
                      /\ ret' = NilErr
                      /\ pc' = "returned"
                      /\ UNCHANGED i
                 ELSE EnterLoop(o)
       ELSE /\ EnterLoop(o)
            /\ UNCHANGED trace
    /\ UNCHANGED <<cur, bk, call, batchRet, db>>

\* A runner's Run returned an error: run returns it with the step's name.
Fail(act, msg) ==
    /\ trace' = Append(trace, Event(act, FALSE))
    /\ ret' = ErrOn(msg, stepName(o, i))
    /\ pc' = "returned"
    /\ UNCHANGED <<ops, i>>

\* The outcome r of a call of record is installed; a panic ends the process.
After(r, next) ==
    IF r.panic
    THEN pc' = "panic" /\ UNCHANGED <<ops, i, ret>>
    ELSE /\ ops' = [ops EXCEPT ![cur] = r.o]
         /\ pc' = next
         /\ UNCHANGED <<i, ret>>

\* A runner that returns without recording.
runnerForgets(o2, v) == [panic |-> FALSE, o |-> o2]

\* dbRunner.Run, when it succeeds, records its output once (the statements
\* of the script are the subject of SpecDB).
runnerRecords(o2, v) == record(o2, v)

\* The HTTP, exec and include runners record their output likewise.
otherRunnerRecords(o2, v) == record(o2, v)

\* The primary action of step i: expand, parse, Run.  m is what the
\* placeholders of the payload evaluate to.
Primary(act, msg) ==
    \E m \in evaluations(o.steps[i + 1].payload) :
        IF expand(m).err # NilErr
        THEN /\ ret' = expand(m).err
             /\ pc' = "returned"
             /\ UNCHANGED <<ops, i, trace>>
        ELSE \E out \in {"ok", "invalid", "parse", "run"} :
               IF out = "ok"
               THEN /\ trace' = Append(trace, Event(act, TRUE))
                    /\ After(IF act = "db" THEN runnerRecords(o, Result(cur, i))
                             ELSE otherRunnerRecords(o, Result(cur, i)), "test")
               ELSE IF out = "run"
               THEN Fail(act, msg)
               ELSE /\ ret' = IF out = "parse" /\ act = "http" THEN Err("parse")
                              ELSE ErrOn("invalid", stepName(o, i))
                    /\ pc' = "returned"
                    /\ UNCHANGED <<ops, i, trace>>

StepPrimary ==
    /\ pc = "primary"
    /\ LET s == o.steps[i + 1]
       IN  IF s.httpRunner THEN Primary("http", "http request failed")
           ELSE IF s.dbRunner THEN Primary("db", "db query failed")
           ELSE IF s.execRunner THEN Primary("exec", "exec command failed")
           ELSE IF s.includeRunner /\ s.includePath # ""
           THEN \E out \in {"ok", "run"} :
                  IF out = "ok"
                  THEN /\ trace' = Append(trace, Event("include", TRUE))
                       /\ After(otherRunnerRecords(o, Result(cur, i)), "test")
                  ELSE Fail("include", "include failed")
           ELSE /\ pc' = "test"
                /\ UNCHANGED <<ops, i, ret, trace>>
    /\ UNCHANGED <<cur, bk, call, batchRet, db>>

\* if len(o.store.steps) < i+1 { o.record(nil) }
placeholder(o2, n) ==
    IF Len(o2.store.steps) < n + 1 THEN record(o2, NilValue)
    ELSE [panic |-> FALSE, o |-> o2]

\* A side-runner block of step i: the runner runs when attached and its
\* trigger is non-empty; after is the operator as the runner leaves it.
Side(act, msg, on, after, next) ==
    IF on
    THEN \E out \in {"ok", "fail"} :
           IF out = "ok"
           THEN /\ trace' = Append(trace, Event(act, TRUE))
                /\ After(placeholder(after, i), next)
           ELSE Fail(act, msg)
    ELSE /\ pc' = next
         /\ UNCHANGED <<ops, i, ret, trace>>

noEffect(o2) == o2

\* bindRunner.Run binds the names of the mapping in store.bindVars.
bindEffect(o2) == [o2 EXCEPT !.store.bindVars = MapPut(@, "bound", "value")]

StepTest ==
    /\ pc = "test"
    /\ LET s == o.steps[i + 1]
       IN  Side("test", "test failed", s.testRunner /\ s.testCond # "", noEffect(o), "dump")
    /\ UNCHANGED <<cur, bk, call, batchRet, db>>

StepDump ==
    /\ pc = "dump"
    /\ LET s == o.steps[i + 1]
       IN  Side("dump", "dump failed", s.dumpRunner /\ s.dumpCond # "", noEffect(o), "bind")
    /\ UNCHANGED <<cur, bk, call, batchRet, db>>

StepBind ==
    /\ pc = "bind"
    /\ LET s == o.steps[i + 1]
       IN  Side("bind", "bind failed", s.bindRunner /\ s.bindCond, bindEffect(o), "next")
    /\ UNCHANGED <<cur, bk, call, batchRet, db>>

\* A loop that returns nil after its first iteration.
StepNextBreaks ==
    /\ pc = "next"
    /\ pc' = "returned" /\ ret' = NilErr /\ UNCHANGED i
    /\ UNCHANGED <<ops, cur, bk, call, trace, batchRet, db>>

\* The end of the loop body: the next step, or return nil.
StepNext ==
    /\ pc = "next"
    /\ IF i + 1 < Len(o.steps)
       THEN i' = i + 1 /\ pc' = "primary" /\ UNCHANGED ret
       ELSE pc' = "returned" /\ ret' = NilErr /\ UNCHANGED i
    /\ UNCHANGED <<ops, cur, bk, call, trace, batchRet, db>>

Init ==
    \E b \in Books :
        /\ ops = <<newOperator(b)>>
        /\ cur = 1
        /\ bk = b
        /\ pc = "new"
        /\ i = 0
        /\ ret = NilErr
        /\ call = NoCall
        /\ trace = <<>>
        /\ batchRet = NilErr
        /\ db = NoDB

Next ==
    \/ NewAppendStep
    \/ NewReturn
    \/ RunGuard
    \/ StepPrimary
    \/ StepTest
    \/ StepDump
    \/ StepBind
    \/ StepNext

Spec == Init /\ [][Next]_vars

\* Construction only: New, then AppendStep and record calls in any order.
NextMode ==
    \/ NewAppendStepAny
    \/ NewReturn
    \/ RecordCall
    \/ AppendStepCall

SpecMode == Init /\ [][NextMode]_vars

\* ------------------------------------------------------------ operators.RunN

\* New as a function of the book b and its step configs (configs that
\* AppendStep accepts and that leave pop at most one key).
RECURSIVE appendAll(_, _, _)
appendAll(o2, b, cfgs) ==
    IF cfgs = <<>> THEN o2
    ELSE LET key == IF Len(b.stepKeys) = b.nSteps
                    THEN b.stepKeys[Len(o2.steps) + 1] ELSE ""
             s == Head(cfgs)
         IN  appendAll(AppendStep(o2, key, s, CHOOSE pk \in popChoices(s) : TRUE).o,
                       b, Tail(cfgs))

New(b, cfgs) == appendAll(newOperator(b), b, cfgs)

ScenarioNames == <<"s1", "s2", "s3", "s4", "s5">>

\* The scenarios of a batch: one db step with a test, with or without a
\* guard, failFast set or not.
BatchOperators ==
    {New([nSteps |-> 1, stepKeys |-> <<>>, Desc |-> "", If |-> c, failFast |-> f,
          Vars |-> SeedVars],
         <<stepConfig("cond", Absent, FALSE, {"db"})>>) :
        c \in {"", "cond"}, f \in BOOLEAN}

InitRunN ==
    /\ \E n \in 1..MaxOps : \E f \in [1..n -> BatchOperators] :
         ops = [k \in 1..n |-> [f[k] EXCEPT !.desc = ScenarioNames[k]]]
    /\ cur = 0
    /\ bk = NoBook
    /\ pc = "batch"
    /\ i = 0
    /\ ret = NilErr
    /\ call = NoCall
    /\ trace = <<>>
    /\ batchRet = NilErr
    /\ db = NoDB

\* A batch that stops at every failing scenario.
stopsBatchAlways(o2, r) == r # NilErr

\* if err := o.Run(ctx); err != nil && o.failFast { return err }
stopsBatch(o2, r) == r # NilErr /\ o2.failFast

\* The head of RunN's loop: the next operator's Run is called, or RunN
\* returns nil after the last one.
RunNCall ==
    /\ pc = "batch"
    /\ IF cur < Len(ops)
       THEN /\ cur' = cur + 1
            /\ pc' = "ready"
            /\ trace' = Append(trace, [op |-> cur + 1, step |-> -1, act |-> "Run",
                                       ok |-> TRUE, val |-> "", err |-> NilErr])
            /\ UNCHANGED batchRet
       ELSE /\ pc' = "batchdone"
            /\ batchRet' = NilErr
            /\ UNCHANGED <<cur, trace>>
    /\ UNCHANGED <<ops, bk, i, ret, call, db>>

\* o.Run returned to RunN.
RunNReturn ==
    /\ pc = "returned"
    /\ trace' = Append(trace, [op |-> cur, step |-> -1, act |-> "return",
                               ok |-> ret = NilErr, val |-> "", err |-> ret])
    /\ IF stopsBatch(o, ret)
       THEN pc' = "batchdone" /\ batchRet' = ret
       ELSE pc' = "batch" /\ UNCHANGED batchRet
    /\ UNCHANGED <<ops, cur, bk, i, ret, call, db>>

NextRunN ==
    \/ RunNCall
    \/ RunNReturn
    \/ RunGuard
    \/ StepPrimary
    \/ StepTest
    \/ StepDump
    \/ StepBind
    \/ StepNext

SpecRunN == InitRunN /\ [][NextRunN]_vars

\* ------------------------------------------------- operator.run with payloads

\* The payloads of one to MaxPlaceholders placeholders, the result of each
\* expression known.
Payloads ==
    UNION {[1..n -> {{r} : r \in RunResults}] : n \in 1..MaxPlaceholders}

\* Scenarios of two steps, positional and named: a db step with a payload
\* that has no placeholder and a test, then a step of a DB or an HTTP runner
\* with a payload of Payloads, a test and a dump.
PayloadOperators ==
    {New([nSteps |-> 2, stepKeys |-> k, Desc |-> "s", If |-> "", failFast |-> FALSE,
          Vars |-> SeedVars],
         <<[stepConfig("cond", Absent, FALSE, {"db"}) EXCEPT !["db"] = <<>>],
           [stepConfig("cond", "cond", FALSE, {key}) EXCEPT ![key] = p]>>) :
        k \in {<<>>, <<"a", "b">>}, key \in {"db", "req"}, p \in Payloads}

InitPayload ==
    /\ \E op \in PayloadOperators : ops = <<op>>
    /\ cur = 1
    /\ bk = NoBook
    /\ pc = "ready"
    /\ i = 0
    /\ ret = NilErr
    /\ call = NoCall
    /\ trace = <<>>
    /\ batchRet = NilErr
    /\ db = NoDB

NextPayload ==
    \/ RunGuard
    \/ StepPrimary
    \/ StepTest
    \/ StepDump
    \/ StepBind
    \/ StepNext

SpecPayload == InitPayload /\ [][NextPayload]_vars

\* ------------------------------------------------------------ operator.expand

\* The characters of the strings the expressions evaluate to: two digits,
\* the signs, the decimal point and a letter.
StrChars == {"0", "1", "-", "+", ".", "a"}

\* The strings of at most MaxStrLen characters.
Strings == UNION {[1..n -> StrChars] : n \in 0..MaxStrLen}

\* The Go integer types of the values of a store.
IntegerTypes == {"int", "int64", "uint64"}

\* The decimal digits of the integers that are expanded.
IntegerDigits == {<<"0">>, <<"1">>, <<"1", "0">>, <<"-", "1">>}

\* The results that are expanded: every string, and the integers of every
\* integer type (an unsigned one is not negative).
ExpandResults ==
    {Evaluated(Value("string", str)) : str \in Strings}
        \cup UNION {{Evaluated(Value(t, n)) :
                        n \in {d \in IntegerDigits : t = "uint64" => d[1] # "-"}} :
                     t \in IntegerTypes}

\* A payload of one placeholder is about to be expanded.
InitExpand ==
    /\ \E r \in ExpandResults : call = [op |-> "expand", in |-> <<r>>]
    /\ ops = <<>>
    /\ cur = 0
    /\ bk = NoBook
    /\ pc = "expand"
    /\ i = 0
    /\ ret = NilErr
    /\ trace = <<>>
    /\ batchRet = NilErr
    /\ db = NoDB

\* e, err := o.expand(payload): news are the texts replacefunc put in the
\* place of the placeholders, out and err what expand returned.
Expand ==
    /\ pc = "expand"
    /\ call' = [op |-> "expanded", in |-> call.in,
                news |-> replacefunc(call.in, 1, [reperr |-> NilErr, news |-> <<>>]).news,
                out |-> expand(call.in).out]
    /\ ret' = expand(call.in).err
    /\ pc' = "expanded"
    /\ UNCHANGED <<ops, cur, bk, i, trace, batchRet, db>>

SpecExpand == InitExpand /\ [][Expand]_vars

\* -------------------------------------------------------------- dbRunner.Run

\* A script and a statement are sequences of characters.  The alphabet
\* writes the keyword SELECT as the one letter S (s in lower case) and the
\* keyword INSERT as I; n is a letter of an identifier.
toUpper(c) == IF c = "s" THEN "S" ELSE IF c = "i" THEN "I" ELSE c
ToUpper(str) == [k \in 1..Len(str) |-> toUpper(str[k])]
HasPrefix(str, prefix) ==
    Len(str) >= Len(prefix) /\ SubSeq(str, 1, Len(prefix)) = prefix
SELECT == <<"S">>

\* !strings.HasPrefix(strings.ToUpper(stmt), "SELECT") negated: the statement
\* goes to QueryContext, not to ExecContext.
isQuery(stmt) == HasPrefix(ToUpper(stmt), SELECT)

\* strings.Contains(str, c) for a one-character c.
Contains(str, c) == \E k \in 1..Len(str) : str[k] = c

\* The positions of str that hold a character outside the set cut.
kept(str, cut) == {k \in 1..Len(str) : str[k] \notin cut}
first(S) == CHOOSE k \in S : \A j \in S : k <= j
last(S) == CHOOSE k \in S : \A j \in S : j <= k

\* strings.Trim(str, cutset) and strings.TrimRight(str, cutset)
Trim(str, cut) ==
    IF kept(str, cut) = {} THEN <<>>
    ELSE SubSeq(str, first(kept(str, cut)), last(kept(str, cut)))
TrimRight(str, cut) ==
    IF kept(str, cut) = {} THEN <<>>
    ELSE SubSeq(str, 1, last(kept(str, cut)))

\* separateStmt's locals before its loop.
separateInit == [stmts |-> <<>>, s |-> <<>>, ins |-> FALSE, ind |-> FALSE]

\* separateStmt's loop from character k on: the character is appended to s,
\* a quote flips its flag, and a ';' met with both flags down ends a
\* statement.
RECURSIVE separateLoop(_, _, _)
separateLoop(stmt, k, st) ==
    IF k > Len(stmt) THEN st
    ELSE LET c == stmt[k]
             s2 == Append(st.s, c)
         IN  separateLoop(stmt, k + 1,
                 IF c = "'" THEN [st EXCEPT !.s = s2, !.ins = ~@]
                 ELSE IF c = "\"" THEN [st EXCEPT !.s = s2, !.ind = ~@]
                 ELSE IF c = ";" /\ ~st.ins /\ ~st.ind
                 THEN [st EXCEPT !.stmts = Append(@, Trim(s2, {" ", "\n"})), !.s = <<>>]
                 ELSE [st EXCEPT !.s = s2])

\* cutset := " \n\\n\"": a space, a newline, a backslash, the letter n and
\* a double quote.
cutset == {" ", "\n", "\\", "n", "\""}

separateStmt(stmt) ==
    IF ~Contains(stmt, ";") THEN <<stmt>>
    ELSE LET st == separateLoop(stmt, 1, separateInit)
             l == TrimRight(st.s, cutset)
         IN  IF Len(st.s) > 0 /\ Len(l) > 0 THEN Append(st.stmts, l) ELSE st.stmts

dbStoreLastInsertIDKey == "last_insert_id"
dbStoreRowsAffectedKey == "rows_affected"
dbStoreRowsKey == "rows"

\* The map `out` after statement n (0-based): its keys, the statement the
\* values come from, and for a query the rows it returned (the table is
\* modelled by its number of rows).
execOut(n) == [kind |-> "db", keys |-> {dbStoreLastInsertIDKey, dbStoreRowsAffectedKey},
               of |-> n, rows |-> -1]
queryOut(n, rows) == [kind |-> "db", keys |-> {dbStoreRowsKey}, of |-> n, rows |-> rows]
emptyOut == [kind |-> "db", keys |-> {}, of |-> -1, rows |-> -1]

\* An assignment that adds the new keys to the map instead of replacing it.
mergeOut(old, new) == [new EXCEPT !.keys = @ \cup old.keys]

\* out = map[string]interface{}{...}: the assignment replaces the map of the
\* statement before.
assignOut(old, new) == new

\* nestTx(client): the handle Run begins its transaction on.  For a *sql.DB
\* it is the database; for a *sql.Tx it is the database the transaction
\* belongs to (the field db of the sql.Tx), not the transaction.
nestTx(client) ==
    CASE client = "db" -> "db"
      [] client = "tx" -> "db"

\* A statement that inserts a row when it is executed.
writes(stmt) == Contains(stmt, "I")

\* The rows a statement of Run's transaction sees: the committed ones and
\* those the transaction inserted itself.  A transaction begun on the
\* database does not see what the caller's open transaction has written; one
\* nested in the caller's transaction would.
visible(d) == d.durable + d.own + (IF d.on = "tx" THEN d.pending ELSE 0)

\* A call dbRunner.Run made on its client or on the transaction, for
\* statement n where it is one, and whether it succeeded.
DBCall(name, n, ok) == [call |-> name, n |-> n, ok |-> ok]

\* The pieces the scripts are made of: a SELECT, a select, an INSERT, a
\* SELECT after a space and after a tab, and a SELECT after a space with no
\* ';' after it.
DBStatements == {<<"S", ";">>, <<"s", ";">>, <<"I", ";">>,
                 <<" ", "S", ";">>, <<"\t", "S", ";">>, <<" ", "S">>}

\* The script made of the pieces of f, in order.
RECURSIVE script(_)
script(f) == IF f = <<>> THEN <<>> ELSE Head(f) \o script(Tail(f))

\* The operators a DB runner belongs to: one built with no step (as the
\* runner's tests do), and one with a db step, positional and named.
DBOperators ==
    {New([nSteps |-> Len(c), stepKeys |-> k, Desc |-> "s", If |-> "", failFast |-> FALSE,
          Vars |-> SeedVars], c) :
        c \in {<<>>, <<stepConfig(Absent, Absent, FALSE, {"db"})>>},
        k \in {<<>>, <<"a">>}}

InitDB ==
    /\ \E op \in DBOperators : ops = <<op>>
    /\ \E n \in 1..MaxStmts : \E f \in [1..n -> DBStatements] :
       \E client \in {"db", "tx"} : \E pending \in (IF client = "tx" THEN {0, 1} ELSE {0}) :
         db = [script |-> script(f), stmts |-> separateStmt(script(f)), n |-> 0,
               out |-> emptyOut, err |-> NilErr, calls |-> <<>>,
               client |-> client, on |-> nestTx(client),
               pending |-> pending, durable |-> 0, own |-> 0]
    /\ cur = 1
    /\ bk = NoBook
    /\ pc = "db.begin"
    /\ i = 0
    /\ ret = NilErr
    /\ call = NoCall
    /\ trace = <<>>
    /\ batchRet = NilErr

\* tx, err := rnr.client.BeginTx(ctx, ...)
DbBegin ==
    /\ pc = "db.begin"
    /\ \E ok \in BOOLEAN :
         /\ db' = [db EXCEPT !.calls = Append(@, DBCall("BeginTx", -1, ok))]
         /\ IF ok THEN pc' = "db.stmt" /\ UNCHANGED ret
            ELSE pc' = "returned" /\ ret' = Err("begin")
    /\ UNCHANGED <<ops, cur, bk, i, call, trace, batchRet>>

\* A statement error that is returned with no call of Rollback.
noRollback(d, e, rb) == [db |-> d, ret |-> e]

\* A rollback whose own error is dropped: the statement's error is returned
\* whether Rollback succeeds or not.
rollbackKeepsError(d, e, rb) ==
    [db |-> [d EXCEPT !.calls = Append(@, DBCall("Rollback", -1, rb)),
                      !.own = IF rb THEN 0 ELSE @],
     ret |-> e]

\* if err != nil { if err := tx.Rollback(); err != nil { return err }; return err }
\* e is the statement's error, rb whether Rollback succeeds.
rollback(d, e, rb) ==
    [db |-> [d EXCEPT !.calls = Append(@, DBCall("Rollback", -1, rb)),
                      !.own = IF rb THEN 0 ELSE @],
     ret |-> IF rb THEN e ELSE Err("rollback")]

\* One iteration of the statement loop: the statement is executed or
\* queried and its rows read; an error rolls the transaction back.
DbStmt ==
    /\ pc = "db.stmt"
    /\ db.n < Len(db.stmts)
    /\ LET stmt == db.stmts[db.n + 1]
           name == IF isQuery(stmt) THEN "Query" ELSE "Exec"
       IN  \E res \in IF isQuery(stmt) THEN {"ok", "query", "rows"} ELSE {"ok", "exec"} :
             LET d == [db EXCEPT !.calls = Append(@, DBCall(name, db.n, res = "ok")),
                                 !.err = IF res = "ok" THEN NilErr ELSE Err(res)]
             IN  IF res = "ok"
                 THEN /\ db' = [d EXCEPT !.n = @ + 1,
                                         !.own = IF ~isQuery(stmt) /\ writes(stmt)
                                                 THEN @ + 1 ELSE @,
                                         !.out = assignOut(@,
                                                     IF isQuery(stmt)
                                                     THEN queryOut(db.n, visible(db))
                                                     ELSE execOut(db.n))]
                      /\ pc' = IF db.n + 1 = Len(db.stmts) THEN "db.commit" ELSE "db.stmt"
                      /\ UNCHANGED ret
                 ELSE \E rb \in BOOLEAN :
                        /\ db' = rollback(d, Err(res), rb).db
                        /\ ret' = rollback(d, Err(res), rb).ret
                        /\ pc' = "returned"
    /\ UNCHANGED <<ops, cur, bk, i, call, trace, batchRet>>

\* A Run that records its output whether or not Commit succeeded.
recordBeforeCommit(o2, v, ok) == record(o2, v)

\* if err := tx.Commit(); err != nil { return err }; rnr.operator.record(out)
recordAfterCommit(o2, v, ok) == IF ok THEN record(o2, v) ELSE [panic |-> FALSE, o |-> o2]

\* tx.Commit(), then rnr.operator.record(out).  The commit of a transaction
\* begun on the database makes its rows durable; the commit of one nested in
\* the caller's transaction would leave them to that transaction.
DbCommit ==
    /\ pc = "db.commit"
    /\ \E ok \in BOOLEAN :
         /\ db' = [db EXCEPT !.calls = Append(@, DBCall("Commit", -1, ok)),
                             !.durable = IF ok /\ db.on = "db" THEN @ + db.own ELSE @,
                             !.pending = IF ok /\ db.on = "tx" THEN @ + db.own ELSE @,
                             !.own = IF ok THEN 0 ELSE @]
         /\ LET r == recordAfterCommit(o, db.out, ok)
            IN  IF r.panic
                THEN pc' = "panic" /\ UNCHANGED <<ops, i, ret>>
                ELSE /\ ops' = [ops EXCEPT ![cur] = r.o]
                     /\ pc' = "returned"
                     /\ ret' = IF ok THEN ret ELSE Err("commit")
                     /\ UNCHANGED i
    /\ UNCHANGED <<cur, bk, call, trace, batchRet>>

NextDB ==
    \/ DbBegin
    \/ DbStmt
    \/ DbCommit

SpecDB == InitDB /\ [][NextDB]_vars

\* --------------------------------------------------------------- separateStmt

\* The characters of the scripts that are separated: two letters, the
\* separator, the two quotes, a space, a newline and a backslash.
ScriptChars == {"S", "n", ";", "'", "\"", " ", "\n", "\\"}

\* Every script of at most MaxScript characters.
InitSeparate ==
    /\ \E n \in 0..MaxScript : \E s \in [1..n -> ScriptChars] :
         db = [script |-> s, stmts |-> <<>>]
    /\ ops = <<>>
    /\ cur = 0
    /\ bk = NoBook
    /\ pc = "db.separate"
    /\ i = 0
    /\ ret = NilErr
    /\ call = NoCall
    /\ trace = <<>>
    /\ batchRet = NilErr

\* stmts := separateStmt(q.stmt)
DbSeparate ==
    /\ pc = "db.separate"
    /\ db' = [db EXCEPT !.stmts = separateStmt(db.script)]
    /\ pc' = "db.separated"
    /\ UNCHANGED <<ops, cur, bk, i, ret, call, trace, batchRet>>

SpecSeparate == InitSeparate /\ [][DbSeparate]_vars

\* ------------------------------------------------------------ column values

\* A driver type name is a sequence of fragments, so that VARCHAR(255) is
\* VAR, CHAR, (255) and contains CHAR.  The names of the columns that are
\* scanned: the names the switch tests, in upper and lower case, with a
\* prefix, with a length or precision, and names it does not know.
TypeNames ==
    {<<"TEXT">>, <<"text">>, <<"TINY", "TEXT">>, <<"VAR", "CHAR">>, <<"VAR", "CHAR", "(255)">>,
     <<"TIME">>, <<"DECIMAL">>, <<"decimal">>, <<"DECIMAL", "(10,2)">>, <<"FLOAT">>,
     <<"DOUBLE">>, <<"DOUBLE", " PRECISION">>, <<"DATE">>, <<"TIMESTAMP">>,
     <<"TIMESTAMP", " WITH TIME ZONE">>, <<"DATE", "TIME">>, <<"JSONB">>, <<"JSON">>,
     <<"INT">>, <<"TINY", "INT">>}

\* strings.ToUpper on a type name.
upper(w) == IF w = "text" THEN "TEXT" ELSE IF w = "decimal" THEN "DECIMAL" ELSE w
ToUpperName(t) == [k \in 1..Len(t) |-> upper(t[k])]

\* strings.Contains(t, sub)
ContainsName(t, sub) ==
    \E k \in 0..(Len(t) - Len(sub)) : SubSeq(t, k + 1, k + Len(sub)) = sub

\* A value rows.Scan yields: bytes, or a value the driver typed already.
ColumnValue(kind, text) == [kind |-> kind, text |-> text]

\* The texts of the values, and those strconv.ParseFloat, strconv.Atoi,
\* dateparse.ParseStrict and json.Unmarshal (into a mapping) accept.
Texts == {"3.14", "1", "abc", "2022-01-01", "{a:1}"}
Floats == {"3.14", "1"}
Ints == {"1"}
Dates == {"2022-01-01"}
Objects == {"{a:1}"}

ColumnValues ==
    {ColumnValue("bytes", x) : x \in Texts}
        \cup {ColumnValue("int64", "1"), ColumnValue("string", "abc"),
              ColumnValue("time", "2022-01-01")}

\* One branch of the switch: the text parsed as `kind` when it is one of ok,
\* the error "invalid column" when it is not.
parsed(kind, text, ok) ==
    IF text \in ok THEN [val |-> ColumnValue(kind, text), err |-> NilErr]
    ELSE [val |-> ColumnValue("none", ""), err |-> Err("invalid column")]

\* switch v := vals[i].(type) { case []byte: switch { ... } default: row[c] = v }
coerce(name, v) ==
    LET t == ToUpperName(name)
    IN  IF v.kind # "bytes" THEN [val |-> v, err |-> NilErr]
        ELSE IF ContainsName(t, <<"TEXT">>) \/ ContainsName(t, <<"CHAR">>) \/ t = <<"TIME">>
        THEN [val |-> ColumnValue("string", v.text), err |-> NilErr]
        ELSE IF t = <<"DECIMAL">> \/ t = <<"FLOAT">> \/ t = <<"DOUBLE">>
        THEN parsed("float64", v.text, Floats)
        ELSE IF t = <<"DATE">> \/ t = <<"TIMESTAMP">> \/ t = <<"DATE", "TIME">>
        THEN parsed("time", v.text, Dates)
        ELSE IF ContainsName(t, <<"JSONB">>)
        THEN parsed("map", v.text, Objects)
        ELSE parsed("int", v.text, Ints)

\* A row of one column is about to be read.
InitScan ==
    /\ \E name \in TypeNames : \E v \in ColumnValues :
         db = [type |-> name, val |-> v, row |-> ColumnValue("none", "")]
    /\ ops = <<>>
    /\ cur = 0
    /\ bk = NoBook
    /\ pc = "db.scan"
    /\ i = 0
    /\ ret = NilErr
    /\ call = NoCall
    /\ trace = <<>>
    /\ batchRet = NilErr

\* The column loop of a row of a query: the value is stored in the row, or
\* the statement fails with the error of the parse.
DbScan ==
    /\ pc = "db.scan"
    /\ db' = [db EXCEPT !.row = coerce(db.type, db.val).val]
    /\ ret' = coerce(db.type, db.val).err
    /\ pc' = IF coerce(db.type, db.val).err = NilErr THEN "db.scanned" ELSE "returned"
    /\ UNCHANGED <<ops, cur, bk, i, call, trace, batchRet>>

SpecScan == InitScan /\ [][DbScan]_vars

\* ------------------------------------------------------------------ results

resultSuccess == "success"
resultFailure == "failure"
resultSkipped == "skipped"

\* A tag that looks at the skipped flag before the error.
tagSkippedFirst(x) ==
    IF x.Skipped THEN resultSkipped ELSE IF x.Err THEN resultFailure ELSE resultSuccess

\* switch { case x.Err != nil: failure; case x.Skipped: skipped; default:
\* success }, for a scenario result and for a step result.  Err is whether
\* the error is non-nil.
tag(x) ==
    IF x.Err THEN resultFailure ELSE IF x.Skipped THEN resultSkipped ELSE resultSuccess

simplifyStepResults(stepResults) ==
    [k \in 1..Len(stepResults) |-> [Key |-> stepResults[k].Key, Result |-> tag(stepResults[k])]]

\* The loop of Simplify over r.RunResults, from result k on.
RECURSIVE simplifyLoop(_, _, _)
simplifyLoop(rs, k, s) ==
    IF k > Len(rs) THEN s
    ELSE LET rr == rs[k]
             t == tag(rr)
         IN  simplifyLoop(rs, k + 1,
                 [s EXCEPT !.Failure = IF t = resultFailure THEN @ + 1 ELSE @,
                           !.Skipped = IF t = resultSkipped THEN @ + 1 ELSE @,
                           !.Success = IF t = resultSuccess THEN @ + 1 ELSE @,
                           !.Results = Append(@, [Path |-> rr.Path, Result |-> t,
                                                  Steps |-> simplifyStepResults(rr.StepResults)])])

Simplify(r) ==
    simplifyLoop(r.RunResults, 1,
                 [Total |-> r.Total, Success |-> 0, Failure |-> 0, Skipped |-> 0,
                  Results |-> <<>>])

HasFailure(r) == \E k \in 1..Len(r.RunResults) : r.RunResults[k].Err

\* The step results of a scenario: at most MaxStepResults, named in order.
StepResultLists ==
    UNION {{[k \in 1..n |-> [Key |-> StepNames[k], Skipped |-> f[k][1], Err |-> f[k][2]]] :
               f \in [1..n -> BOOLEAN \X BOOLEAN]} : n \in 0..MaxStepResults}

\* The scenario results of a batch, their paths in order: f gives the
\* skipped flag, the error and the step results of each.
RunResultList(f) ==
    [k \in DOMAIN f |-> [Path |-> ScenarioNames[k], Skipped |-> f[k][1], Err |-> f[k][2],
                         StepResults |-> f[k][3]]]

\* A runNResult of at most MaxResults scenario results; its counter Total is
\* kept by the batch, apart from the list.
InitResult ==
    /\ \E n \in 0..MaxResults : \E f \in [1..n -> BOOLEAN \X BOOLEAN \X StepResultLists] :
       \E total \in {0, n} :
         db = [RunResults |-> RunResultList(f), Total |-> total]
    /\ ops = <<>>
    /\ cur = 0
    /\ bk = NoBook
    /\ pc = "result"
    /\ i = 0
    /\ ret = NilErr
    /\ call = [op |-> "", s |-> Simplify([RunResults |-> <<>>, Total |-> 0]), has |-> FALSE]
    /\ trace = <<>>
    /\ batchRet = NilErr

\* s := r.Simplify()
ResultSimplify ==
    /\ pc = "result"
    /\ call' = [call EXCEPT !.op = "Simplify", !.s = Simplify(db)]
    /\ pc' = "simplified"
    /\ UNCHANGED <<ops, cur, bk, i, ret, trace, batchRet, db>>

\* r.HasFailure()
ResultHasFailure ==
    /\ pc = "simplified"
    /\ call' = [call EXCEPT !.op = "HasFailure", !.has = HasFailure(db)]
    /\ pc' = "asked"
    /\ UNCHANGED <<ops, cur, bk, i, ret, trace, batchRet, db>>

NextResult ==
    \/ ResultSimplify
    \/ ResultHasFailure

SpecResult == InitResult /\ [][NextResult]_vars

\* ---------------------------------------------------------------- store.toMap

\* The names a bind runner may have bound, and the values bound to them.
BoundNames == {storeVarsKey, storeStepsKey, "bound"}
BoundValues == {"value", "other"}

\* The stores toMap is called on: positional or named, with or without a
\* recorded step, and with any bound variables.
Stores ==
    {[steps |-> IF ~m /\ r THEN <<Result(1, 0)>> ELSE <<>>,
      stepMaps |-> IF m /\ r THEN MapPut(EmptyMap, "a", Result(1, 0)) ELSE EmptyMap,
      vars |-> SeedVars, bindVars |-> b, useMaps |-> m] :
        m \in BOOLEAN, r \in BOOLEAN,
        b \in UNION {[N -> BoundValues] : N \in SUBSET BoundNames}}

InitView ==
    /\ \E st \in Stores :
         ops = <<[newOperator(NoBook) EXCEPT !.store = st, !.useMaps = st.useMaps]>>
    /\ cur = 1
    /\ bk = NoBook
    /\ pc = "view"
    /\ i = 0
    /\ ret = NilErr
    /\ call = NoCall
    /\ trace = <<>>
    /\ batchRet = NilErr
    /\ db = NoDB

\* store := o.store.toMap()
ToMapCall ==
    /\ pc = "view"
    /\ call' = [op |-> "toMap", s |-> toMap(o.store), err |-> NilErr]
    /\ pc' = "viewed"
    /\ UNCHANGED <<ops, cur, bk, i, ret, trace, batchRet, db>>

SpecView == InitView /\ [][ToMapCall]_vars

\* ------------------------------------------------------- reading the history

IsPrimary(e) == e.act \in {"http", "db", "exec", "include"}
IsSide(e) == e.act \in {"test", "dump", "bind"}
IsRunner(e) == IsPrimary(e) \/ IsSide(e)

\* The position of an action inside its step: primary, test, dump, bind.
Kind(e) == IF IsPrimary(e) THEN "primary" ELSE e.act
Before(a, b) == <<a, b>> \in {<<"primary", "test">>, <<"primary", "dump">>,
                              <<"primary", "bind">>, <<"test", "dump">>,
                              <<"test", "bind">>, <<"dump", "bind">>}

\* The actions a step has to run, by the runners and triggers it carries.
Runnable(s) ==
    (IF s.httpRunner \/ s.dbRunner \/ s.execRunner
        \/ (s.includeRunner /\ s.includePath # "") THEN {"primary"} ELSE {})
    \cup (IF s.testRunner /\ s.testCond # "" THEN {"test"} ELSE {})
    \cup (IF s.dumpRunner /\ s.dumpCond # "" THEN {"dump"} ELSE {})
    \cup (IF s.bindRunner /\ s.bindCond THEN {"bind"} ELSE {})

\* Action a of step n of operator p was invoked among the first k entries.
Ran(p, n, a, k) ==
    \E j \in 1..k : trace[j].op = p /\ trace[j].step = n /\ IsRunner(trace[j])
                    /\ Kind(trace[j]) = a

\* Every step of operator p ran all its actions, none failing.
AllStepsRan(p) ==
    /\ \A n \in 0..(Len(ops[p].steps) - 1) : \A a \in Runnable(ops[p].steps[n + 1]) :
         Ran(p, n, a, Len(trace))
    /\ \A j \in 1..Len(trace) : (trace[j].op = p /\ IsRunner(trace[j])) => trace[j].ok

\* The values the store holds for its steps, in either storage.
Recorded(st) ==
    {st.steps[k] : k \in 1..Len(st.steps)} \cup {st.stepMaps[k] : k \in DOMAIN st.stepMaps}

\* ------------------------------------------------------------------ claims

\* The calls of dbRunner.Run with the given name.
DBCalls(name) == {k \in 1..Len(db.calls) : db.calls[k].call = name}
Statements == DBCalls("Exec") \cup DBCalls("Query")

\* C1: dbRunner.Run is all or nothing.  The statements are executed in script
\* order right after BeginTx.  A failed statement is followed by Rollback and
\* by nothing else: no later statement, no Commit; Run has returned an error,
\* the statement's own when Rollback succeeded.  When Run has returned and no
\* statement failed, every statement was executed, Commit was called once, as
\* the last call, and Rollback never.  A transaction that was begun has
\* exactly one of Commit and Rollback once Run has returned, and never more.
C1_Atomic ==
    /\ \A k \in Statements : k > 1 /\ db.calls[1].call = "BeginTx" /\ db.calls[k].n = k - 2
    /\ \A k \in Statements :
         ~db.calls[k].ok =>
            /\ Len(db.calls) = k + 1
            /\ db.calls[k + 1].call = "Rollback"
            /\ DBCalls("Commit") = {}
            /\ pc = "returned"
            /\ ret # NilErr
            /\ db.calls[k + 1].ok =>
                 ret.msg \in (IF db.calls[k].call = "Exec" THEN {"exec"}
                              ELSE {"query", "rows"})
    /\ (pc = "returned" /\ db.calls[1].ok /\ \A k \in Statements : db.calls[k].ok) =>
            /\ Cardinality(Statements) = Len(db.stmts)
            /\ DBCalls("Commit") = {Len(db.calls)}
            /\ DBCalls("Rollback") = {}
    /\ Cardinality(DBCalls("Commit")) + Cardinality(DBCalls("Rollback")) <= 1
    /\ (pc = "returned" /\ db.calls[1].ok) =>
            Cardinality(DBCalls("Commit")) + Cardinality(DBCalls("Rollback")) = 1
    /\ (pc = "returned" /\ ~db.calls[1].ok) => Len(db.calls) = 1 /\ ret # NilErr

\* A script of three statements whose second statement failed and was
\* rolled back.
C1_Witness ==
    /\ pc = "returned"
    /\ Len(db.stmts) = 3
    /\ Len(db.calls) = 4
    /\ db.calls[2].ok /\ ~db.calls[3].ok
    /\ db.calls[4].call = "Rollback"

\* The number of entries the store holds for its steps.
Entries(st) == Len(st.steps) + Cardinality(DOMAIN st.stepMaps)

\* C11: the last statement wins.  When dbRunner.Run has returned nil the
\* script had at least one statement, the store holds exactly one entry, and
\* that entry is the map the last statement assigned: it carries the keys and
\* values of that statement and of no earlier one.  Until then Run has
\* recorded nothing.
C11_LastWins ==
    LET n == Len(db.stmts)
    IN  /\ (pc = "returned" /\ ret = NilErr) =>
              /\ n >= 1
              /\ Cardinality(Statements) = n
              /\ Entries(o.store) = 1
              /\ Recorded(o.store) = {db.out}
              /\ db.out \in {execOut(n - 1)} \cup {queryOut(n - 1, r) : r \in 0..n}
        /\ ~(pc = "returned" /\ ret = NilErr) => Entries(o.store) = 0

\* A script of an INSERT and a SELECT has run: the store holds the rows of the
\* SELECT.
C11_Witness ==
    /\ pc = "returned" /\ ret = NilErr
    /\ db.stmts = << <<"I", ";">>, <<"S", ";">> >>
    /\ Recorded(o.store) = {queryOut(1, 1)}

\* A statement whose first keyword, leading spaces, tabs and newlines and the
\* case of the letters set aside, is SELECT.
IsSelect(stmt) ==
    LET body == kept(stmt, {" ", "\t", "\n"})
    IN  body # {} /\ HasPrefix(ToUpper(SubSeq(stmt, first(body), Len(stmt))), SELECT)

\* C12: the shape of the recorded result follows the kind of the last
\* statement of the script.  When dbRunner.Run has returned nil, the entry it
\* recorded has the key rows alone when the last statement separateStmt
\* produced is a SELECT, and the keys last_insert_id and rows_affected alone
\* when it is not.
C12_Shape ==
    (pc = "returned" /\ ret = NilErr) =>
        /\ db.stmts = separateStmt(db.script)
        /\ \A v \in Recorded(o.store) :
              v.keys = IF IsSelect(db.stmts[Len(db.stmts)])
                       THEN {dbStoreRowsKey}
                       ELSE {dbStoreLastInsertIDKey, dbStoreRowsAffectedKey}

\* The rows the script has inserted before its statement n (0-based).
InsertsBefore(n) ==
    Cardinality({k \in 1..n : ~isQuery(db.stmts[k]) /\ writes(db.stmts[k])})

\* C16: nested-transaction support.  When the client of the DB runner was
\* built from a transaction the caller holds open, the statements of Run
\* execute inside that transaction: as long as the caller has not committed
\* (it never does here), no row of the script is durable, so that a rollback
\* of the caller's transaction undoes the whole script.
C16_Nested ==
    db.client = "tx" => db.durable = 0

\* C17: nested-transaction transparency.  A run on a client built from the
\* caller's open transaction records what a run on a fresh connection records
\* from the same contents: a last statement that is a query returns the rows
\* the caller's transaction started with and the rows the script inserted
\* before it.
C17_Transparent ==
    (pc = "returned" /\ ret = NilErr /\ db.client = "tx" /\ db.out.keys = {dbStoreRowsKey}) =>
        db.out.rows = db.pending + InsertsBefore(db.out.of)

\* C18: the error of a failed rollback replaces the statement's.  When a
\* statement of the script failed, Rollback was called next and Run has
\* returned an error: the error of the failed statement when Rollback
\* succeeded, the error of Rollback, which is not the statement's, when
\* Rollback failed.
C18_RollbackError ==
    \A k \in Statements :
        ~db.calls[k].ok =>
            /\ Len(db.calls) = k + 1
            /\ db.calls[k + 1].call = "Rollback"
            /\ pc = "returned"
            /\ ret # NilErr
            /\ db.err # NilErr
            /\ db.err.msg \in {"exec", "query", "rows"}
            /\ IF db.calls[k + 1].ok THEN ret = db.err
               ELSE ret = Err("rollback") /\ ret # db.err

\* The second statement of a script failed and so did Rollback: Run has
\* returned the error of Rollback.
C18_Witness ==
    /\ pc = "returned"
    /\ Len(db.calls) = 4
    /\ db.calls[2].ok /\ ~db.calls[3].ok
    /\ db.calls[4] = DBCall("Rollback", -1, FALSE)
    /\ db.err = Err("exec")
    /\ ret = Err("rollback")

\* A result the claim has expand reject: the expression failed to evaluate,
\* or its value is neither a string nor an integer.
Rejected(r) == r.err \/ r.v.type \notin {"string", "int", "int64", "uint64"}

\* C19: an expansion failure aborts the step before dispatch.  When the
\* primary action of a step is about to run and a placeholder of its payload
\* evaluates to a rejected result, expand returns an error and no value,
\* whatever the other placeholders evaluate to, and the step of operator.run
\* that follows returns that error: no primary runner and no side-runner of
\* the step is invoked and the store is left as it was.
C19_ExpandAborts ==
    [][\A m \in evaluations(o.steps[i + 1].payload) :
          (pc = "primary" /\ o.steps[i + 1].runnerKey \in {"db", "req"}
                          /\ \E k \in 1..Len(m) : Rejected(m[k])) =>
              /\ expand(m).err # NilErr
              /\ expand(m).out = <<>>
              /\ pc' = "returned"
              /\ ret' = expand(m).err
              /\ ops' = ops
              /\ trace' = trace
              /\ i' = i]_vars

\* The second step has a payload whose first placeholder fails to evaluate
\* and whose second evaluates to a string: Run has returned the error of
\* expand at that step, after the runners of the first step and no other.
C19_Witness ==
    /\ pc = "returned"
    /\ i = 1
    /\ o.steps[2].payload = <<{EvalError}, {Evaluated(Value("string", <<"a">>))}>>
    /\ ret = Err("invalid format")
    /\ Len(trace) = 2
    /\ \A j \in 1..Len(trace) : trace[j].step = 0 /\ trace[j].ok
    /\ Entries(o.store) = Len(trace)

\* A string that looks like an optionally signed decimal number: an optional
\* sign, digits, and optionally a point and digits.
DigitStrings == {d \in Strings : d # <<>> /\ \A k \in 1..Len(d) : d[k] \in {"0", "1"}}
LooksNumeric(str) ==
    \E sign \in {<<>>, <<"+">>, <<"-">>} : \E whole \in DigitStrings :
        \/ str = sign \o whole
        \/ \E frac \in DigitStrings : str = sign \o whole \o <<".">> \o frac

\* C20: what expand puts in the place of a placeholder.  A string that looks
\* numeric is put in quotes, so that the expanded value is that string and
\* not a number; a string that does not is inserted as it is; an integer is
\* inserted as its decimal literal and the expanded value is that integer.
C20_Substitution ==
    pc = "expanded" =>
        LET r == call.in[1].v
        IN  /\ (r.type = "string" /\ LooksNumeric(r.str)) =>
                  /\ ret = NilErr
                  /\ call.news[1] = <<"'">> \o r.str \o <<"'">>
                  /\ call.out[1] = Value("string", r.str)
            /\ (r.type = "string" /\ ~LooksNumeric(r.str)) =>
                  /\ ret = NilErr
                  /\ call.news[1] = r.str
            /\ r.type \in IntegerTypes =>
                  /\ ret = NilErr
                  /\ call.news[1] = r.str
                  /\ call.out[1].type \in IntegerTypes
                  /\ call.out[1].str = r.str

\* The primary runners attached to a step.
Attached(st) ==
    {k \in {"http", "db", "exec", "include"} :
        \/ k = "http" /\ st.httpRunner
        \/ k = "db" /\ st.dbRunner
        \/ k = "exec" /\ st.execRunner
        \/ k = "include" /\ st.includeRunner}

\* C21: primary actions are mutually exclusive.  The step config New has
\* just handled is rejected, and no step added, when it has no key or more
\* than one key other than test, dump and bind; it is accepted when it has
\* at most one such key, a key a runner answers to, whatever test, dump and
\* bind keys it has and whatever key pop yields.  Every step of the list has
\* at most one primary runner.
C21_Exclusive ==
    /\ call.op = "AppendStep" =>
          LET s == call.s
              P == customKeys(s)
          IN  /\ (DOMAIN s = {} \/ Cardinality(P) > 1) =>
                    call.err # NilErr /\ pc = "newfailed"
              /\ (DOMAIN s # {} /\ Cardinality(P) <= 1
                               /\ P \subseteq (httpRunners \cup dbRunners
                                                  \cup {execRunnerKey, includeRunnerKey})) =>
                    call.err = NilErr
    /\ \A k \in 1..Len(ops) : \A n \in 1..Len(ops[k].steps) :
          Cardinality(Attached(ops[k].steps[n])) <= 1

\* The keys of a config that name a primary action no runner answers to.
Unresolvable(s) ==
    customKeys(s) \ (httpRunners \cup dbRunners \cup {execRunnerKey, includeRunnerKey})

\* C22: runner keys are resolved at construction.  A step config whose
\* primary key no runner answers to makes New fail, with no step added for
\* it; no runner is invoked while New runs or after it failed; and once
\* operator.Run has started every step of the scenario carries a key of a
\* runner, or none.
C22_Resolved ==
    /\ (call.op = "AppendStep" /\ Unresolvable(call.s) # {}) =>
          /\ call.err # NilErr
          /\ pc = "newfailed"
          /\ ret = call.err
    /\ pc \in {"new", "newfailed"} => trace = <<>>
    /\ pc \notin {"new", "newfailed"} =>
          \A n \in 1..Len(o.steps) :
             o.steps[n].runnerKey \in httpRunners \cup dbRunners
                                        \cup {execRunnerKey, includeRunnerKey, ""}

\* New accepted a first step and failed on a second whose key no runner
\* answers to.
C22_Witness ==
    /\ pc = "newfailed"
    /\ call.op = "AppendStep"
    /\ DOMAIN call.s = {"ghost"}
    /\ Len(o.steps) = 1
    /\ bk.nSteps = 2
    /\ ret = Err("can not find client")
    /\ trace = <<>>

\* The kind of value the table of coercions gives a byte-encoded value of a
\* column whose upper-cased type name is t.
TableKind(t) ==
    IF ContainsName(t, <<"TEXT">>) \/ ContainsName(t, <<"CHAR">>) \/ t = <<"TIME">>
    THEN "string"
    ELSE IF \E w \in {"DECIMAL", "FLOAT", "DOUBLE"} : ContainsName(t, <<w>>)
    THEN "float64"
    ELSE IF \E w \in {<<"DATE">>, <<"TIMESTAMP">>, <<"DATE", "TIME">>} : ContainsName(t, w)
    THEN "time"
    ELSE IF ContainsName(t, <<"JSONB">>) THEN "map"
    ELSE "int"

\* The texts a kind of value can be parsed from.
Parsable(kind) ==
    IF kind = "string" THEN Texts
    ELSE IF kind = "float64" THEN Floats
    ELSE IF kind = "time" THEN Dates
    ELSE IF kind = "map" THEN Objects
    ELSE Ints

\* C23: column coercion follows the table.  When a column has been read, a
\* value that is not byte-encoded is in the row unchanged; a byte-encoded
\* value is in the row as the kind the table gives the upper-cased type name
\* when its text parses as that kind, and the statement has failed when it
\* does not.
C23_Coercion ==
    pc \in {"db.scanned", "returned"} =>
        LET kind == TableKind(ToUpperName(db.type))
        IN  IF db.val.kind # "bytes"
            THEN pc = "db.scanned" /\ db.row = db.val /\ ret = NilErr
            ELSE IF db.val.text \in Parsable(kind)
            THEN pc = "db.scanned" /\ db.row = ColumnValue(kind, db.val.text) /\ ret = NilErr
            ELSE pc = "returned" /\ ret # NilErr

\* The one tag of a result: failure when it has an error, whether or not it
\* is flagged skipped; skipped when it has none and is flagged; success
\* otherwise.
Tagged(x, t) ==
    /\ t \in {resultFailure, resultSkipped, resultSuccess}
    /\ t = resultFailure <=> x.Err
    /\ t = resultSkipped <=> (~x.Err /\ x.Skipped)
    /\ t = resultSuccess <=> (~x.Err /\ ~x.Skipped)

\* The results of s with the tag t.
WithTag(s, t) == {k \in 1..Len(s.Results) : s.Results[k].Result = t}

\* C24: result aggregation.  What Simplify returned has one entry for every
\* scenario result, in the same order, each with its one tag, and one entry
\* for every step result of the scenario, in the same order, each with its
\* one tag; its counts are the numbers of entries with each tag and sum to
\* the number of scenario results; and HasFailure has answered true exactly
\* when the failure count is greater than zero.
C24_Aggregation ==
    pc \in {"simplified", "asked"} =>
        LET s == call.s
            rs == db.RunResults
        IN  /\ Len(s.Results) = Len(rs)
            /\ \A k \in 1..Len(rs) :
                  /\ s.Results[k].Path = rs[k].Path
                  /\ Tagged(rs[k], s.Results[k].Result)
                  /\ Len(s.Results[k].Steps) = Len(rs[k].StepResults)
                  /\ \A n \in 1..Len(rs[k].StepResults) :
                        /\ s.Results[k].Steps[n].Key = rs[k].StepResults[n].Key
                        /\ Tagged(rs[k].StepResults[n], s.Results[k].Steps[n].Result)
            /\ s.Failure = Cardinality(WithTag(s, resultFailure))
            /\ s.Skipped = Cardinality(WithTag(s, resultSkipped))
            /\ s.Success = Cardinality(WithTag(s, resultSuccess))
            /\ s.Success + s.Failure + s.Skipped = Len(rs)
            /\ pc = "asked" => (call.has <=> s.Failure > 0)

\* A batch of two scenarios, the first failed and flagged skipped with a
\* failed step flagged skipped, the second skipped: one failure, one
\* skipped, and HasFailure answered true.
C24_Witness ==
    /\ pc = "asked"
    /\ Len(db.RunResults) = 2
    /\ db.RunResults[1].Err /\ db.RunResults[1].Skipped
    /\ Len(db.RunResults[1].StepResults) = 2
    /\ db.RunResults[1].StepResults[2].Err /\ db.RunResults[1].StepResults[2].Skipped
    /\ ~db.RunResults[2].Err /\ db.RunResults[2].Skipped
    /\ call.s.Failure = 1 /\ call.s.Skipped = 1 /\ call.s.Success = 0
    /\ call.s.Results[1].Steps[2].Result = resultFailure
    /\ call.has

\* C25: the recorded entry carries the key run.  When dbRunner.Run has
\* returned nil, the entry it recorded has the key run besides the keys of
\* the result of the last statement, for a query and for a mutation alike.
C25_RunKey ==
    (pc = "returned" /\ ret = NilErr) =>
        /\ Recorded(o.store) # {}
        /\ \A v \in Recorded(o.store) :
              /\ "run" \in v.keys
              /\ \/ dbStoreRowsKey \in v.keys
                 \/ {dbStoreLastInsertIDKey, dbStoreRowsAffectedKey} \subseteq v.keys

\* The store of an operator on which no runner has run.
Untouched(st) ==
    /\ Entries(st) = 0
    /\ st.vars = SeedVars
    /\ st.bindVars = EmptyMap

\* C26: dbRunner.Run records only after Commit has succeeded.  While Run is
\* running, and when it has returned an error (of BeginTx, of a statement, of
\* Rollback or of Commit), the store is as it was before the call; when it
\* has returned nil its last call was a Commit that succeeded and the store
\* holds exactly one entry more, its variables as they were.
C26_RecordAfterCommit ==
    /\ pc # "panic"
    /\ ~(pc = "returned" /\ ret = NilErr) => Untouched(o.store)
    /\ (pc = "returned" /\ ret = NilErr) =>
          /\ db.calls[Len(db.calls)] = DBCall("Commit", -1, TRUE)
          /\ Entries(o.store) = 1
          /\ o.store.vars = SeedVars
          /\ o.store.bindVars = EmptyMap

\* Run has returned the error of a Commit that failed after an INSERT: the
\* store holds nothing.
C26_Witness ==
    /\ pc = "returned"
    /\ ret = Err("commit")
    /\ db.calls[Len(db.calls)] = DBCall("Commit", -1, FALSE)
    /\ db.out = execOut(Len(db.stmts) - 1)
    /\ Untouched(o.store)

\* C27: record never indexes past the end of the step list.  Whatever
\* scenario New accepted, in positional and in named mode, and whatever the
\* runners returned, operator.Run does not panic.
C27_NoPanic == pc # "panic"

\* C28: vars and steps of the flattened view.  In the view toMap returned,
\* vars is the seed variables of the store and steps its step results, the
\* sequence in positional mode and the mapping in named mode, whatever the
\* bound variables are; every bound name other than these two is in the
\* view; and the call left the store as it was.
C28_View ==
    [][pc = "view" =>
          /\ ops' = ops
          /\ call'.s[storeVarsKey] = View("vars", <<>>, o.store.vars)
          /\ call'.s[storeStepsKey] =
                (IF o.store.useMaps THEN View("stepMaps", <<>>, o.store.stepMaps)
                 ELSE View("steps", o.store.steps, EmptyMap))
          /\ \A k \in (DOMAIN o.store.bindVars) \ {storeVarsKey, storeStepsKey} :
                call'.s[k] = View("bound", <<o.store.bindVars[k]>>, EmptyMap)]_vars

\* The quote that is open after the first k characters of a script, "" when
\* none is: a quote opens a literal when none is open, and only the same
\* quote closes it.
RECURSIVE openQuote(_, _)
openQuote(str, k) ==
    IF k = 0 THEN ""
    ELSE LET q == openQuote(str, k - 1)
         IN  IF q = "" THEN (IF str[k] \in {"'", "\""} THEN str[k] ELSE "")
             ELSE IF str[k] = q THEN "" ELSE q

\* Position p lies inside a quoted literal: a quote is open before p and is
\* closed after it.
InLiteral(str, p) ==
    /\ openQuote(str, p - 1) # ""
    /\ \E q \in (p + 1)..Len(str) : str[q] = openQuote(str, p - 1)

\* The ';' at position p ends a statement: separateStmt's loop appends a
\* statement at p and goes on with an empty s.
Splits(str, p) ==
    str[p] = ";" /\ separateLoop(SubSeq(str, 1, p), 1, separateInit).s = <<>>

\* C13: statement separation is quote-aware.  In every script, a ';' inside
\* a single-quoted or double-quoted literal ends no statement.
C13_QuoteAware ==
    pc = "db.separated" =>
        /\ Len(db.stmts) >= Cardinality({p \in 1..Len(db.script) : Splits(db.script, p)})
        /\ \A p \in 1..Len(db.script) :
              (db.script[p] = ";" /\ InLiteral(db.script, p)) => ~Splits(db.script, p)

\* The positions of the ';' of a script that lie outside every literal, open
\* or closed, and the p-th of them (1-based; 0 for p = 0).
OutsideSemis(str) == {p \in 1..Len(str) : str[p] = ";" /\ openQuote(str, p - 1) = ""}
NthOutside(str, n) ==
    IF n = 0 THEN 0
    ELSE CHOOSE p \in OutsideSemis(str) :
            Cardinality({q \in OutsideSemis(str) : q <= p}) = n

\* The statements a script has by its ';' outside literals: the text from
\* one such ';' to the next, without the spaces and newlines around it.
RefStatements(str) ==
    [n \in 1..Cardinality(OutsideSemis(str)) |->
        Trim(SubSeq(str, NthOutside(str, n - 1) + 1, NthOutside(str, n)), {" ", "\n"})]

\* C14: every ';' outside the quoted literals ends a statement.  For a script
\* that contains a ';', separateStmt returns the ';'-terminated segments in
\* input order, trimmed of spaces and newlines, one for each ';' outside the
\* literals, followed by at most one trailing fragment.
C14_EverySemicolon ==
    (pc = "db.separated" /\ Contains(db.script, ";")) =>
        LET ref == RefStatements(db.script)
        IN  /\ Len(db.stmts) \in {Len(ref), Len(ref) + 1}
            /\ SubSeq(db.stmts, 1, Len(ref)) = ref

\* A text made of characters the trailing fragment may lose: whitespace,
\* quotes, and a backslash followed by the letter n.
RECURSIVE Removable(_)
Removable(str) ==
    \/ str = <<>>
    \/ /\ str[Len(str)] \in {" ", "\n", "\t", "'", "\""}
       /\ Removable(SubSeq(str, 1, Len(str) - 1))
    \/ /\ Len(str) >= 2
       /\ str[Len(str) - 1] = "\\" /\ str[Len(str)] = "n"
       /\ Removable(SubSeq(str, 1, Len(str) - 2))

\* C15: the trailing fragment.  For a script that contains a ';', the text
\* after the last ';' that ended a statement is kept as the final statement
\* unless it is made of removable characters only, and the statement kept is
\* that text without a suffix of removable characters.
C15_TrailingFragment ==
    (pc = "db.separated" /\ Contains(db.script, ";")) =>
        LET st == separateLoop(db.script, 1, separateInit)
            n == Len(st.stmts)
        IN  IF Len(db.stmts) = n THEN Removable(st.s)
            ELSE /\ Len(db.stmts) = n + 1
                 /\ LET l == db.stmts[n + 1]
                    IN  /\ l # <<>>
                        /\ Len(l) <= Len(st.s)
                        /\ SubSeq(st.s, 1, Len(l)) = l
                        /\ Removable(SubSeq(st.s, Len(l) + 1, Len(st.s)))

\* C2: fail-fast inside one scenario.  Whenever a primary runner or a
\* side-runner of step n returned an error, that invocation is the last one
\* of the run, operator.run has returned, and the error it returned carries
\* the display name of step n: the scenario's desc with the index n in
\* positional mode, with the name of step n in named mode.
C2_FailFast ==
    \A k \in 1..Len(trace) :
        (IsRunner(trace[k]) /\ ~trace[k].ok) =>
            /\ k = Len(trace)
            /\ pc = "returned"
            /\ ret # NilErr
            /\ ret.name.desc = ops[trace[k].op].desc
            /\ IF ops[trace[k].op].useMaps
               THEN /\ ret.name.mode = "key"
                    /\ ret.name.key = ops[trace[k].op].steps[trace[k].step + 1].key
               ELSE /\ ret.name.mode = "index"
                    /\ ret.name.idx = trace[k].step

\* A named scenario whose second step's dump runner failed after its test
\* runner succeeded.
C2_Witness ==
    /\ pc = "returned"
    /\ o.useMaps
    /\ Len(trace) >= 2
    /\ trace[Len(trace)].act = "dump" /\ ~trace[Len(trace)].ok
    /\ trace[Len(trace)].step = 1
    /\ trace[Len(trace) - 1].act = "test" /\ trace[Len(trace) - 1].step = 1

\* C3: operator.run executes the steps in declaration order, one at a time.
\* The invocations of one run never go back to an earlier step, no action of
\* a step is invoked twice, an action of a step is invoked only after every
\* action of every earlier step was invoked, and run returns nil only when
\* the scenario was skipped or every action of every step ran without error.
C3_Sequential ==
    /\ \A j, k \in 1..Len(trace) :
         (j < k /\ IsRunner(trace[j]) /\ IsRunner(trace[k]) /\ trace[j].op = trace[k].op) =>
            /\ trace[j].step <= trace[k].step
            /\ (trace[j].step = trace[k].step => Kind(trace[j]) # Kind(trace[k]))
    /\ \A k \in 1..Len(trace) :
         IsRunner(trace[k]) =>
            \A n \in 0..(trace[k].step - 1) :
                \A a \in Runnable(ops[trace[k].op].steps[n + 1]) :
                    Ran(trace[k].op, n, a, k - 1)
    /\ (pc = "returned" /\ ret = NilErr) => (o.skipped \/ AllStepsRan(cur))

\* A scenario of two steps that returned nil after running actions of both.
C3_Witness ==
    /\ pc = "returned" /\ ret = NilErr /\ ~o.skipped
    /\ Len(o.steps) = 2
    /\ \E j, k \in 1..Len(trace) :
         /\ IsRunner(trace[j]) /\ trace[j].step = 0
         /\ IsRunner(trace[k]) /\ trace[k].step = 1

\* C4: inside one step the side-runners run after the primary action, in the
\* order test, dump, bind.  Of two invocations of the same step the earlier
\* one comes earlier in that order and succeeded; and a side-runner of a step
\* that has a primary action runs only after that action succeeded and its
\* result is in the store.
C4_SideOrder ==
    /\ \A j, k \in 1..Len(trace) :
         (j < k /\ IsRunner(trace[j]) /\ IsRunner(trace[k])
              /\ trace[j].op = trace[k].op /\ trace[j].step = trace[k].step) =>
            /\ Before(Kind(trace[j]), Kind(trace[k]))
            /\ trace[j].ok
    /\ \A k \in 1..Len(trace) :
         (IsSide(trace[k])
              /\ "primary" \in Runnable(ops[trace[k].op].steps[trace[k].step + 1])) =>
            /\ \E j \in 1..(k - 1) :
                 /\ IsPrimary(trace[j]) /\ trace[j].ok
                 /\ trace[j].op = trace[k].op /\ trace[j].step = trace[k].step
            /\ Result(trace[k].op, trace[k].step) \in Recorded(ops[trace[k].op].store)

\* The primary action, the test runner and the dump runner of one step ran,
\* in this order.
C4_Witness ==
    /\ Len(trace) >= 3
    /\ \E k \in 1..(Len(trace) - 2) :
         /\ IsPrimary(trace[k]) /\ trace[k + 1].act = "test" /\ trace[k + 2].act = "dump"
         /\ trace[k].step = trace[k + 2].step

\* The primary keys AppendStep can resolve.
Resolvable == httpRunners \cup dbRunners \cup {execRunnerKey, includeRunnerKey}

\* C5: every step config with at most one primary key, that key resolvable,
\* and with a bind mapping is accepted by AppendStep and gets its bind runner
\* attached; and when a step has run, every side-runner attached to it with a
\* non-empty trigger was executed.
C5_BindAttached ==
    /\ (/\ call.op = "AppendStep"
        /\ bindRunnerKey \in DOMAIN call.s
        /\ Cardinality(customKeys(call.s)) <= 1
        /\ customKeys(call.s) \subseteq Resolvable) =>
            /\ call.err = NilErr
            /\ o.steps[Len(o.steps)].bindRunner
            /\ o.steps[Len(o.steps)].bindCond
    /\ pc = "next" => \A a \in Runnable(o.steps[i + 1]) : Ran(cur, i, a, Len(trace))

\* C6: in positional mode the store holds exactly i+1 entries when step i has
\* completed, entry k being the result of step k or the null placeholder.
C6_Aligned ==
    (~o.useMaps /\ pc = "next") =>
        /\ Len(o.store.steps) = i + 1
        /\ \A k \in 1..Len(o.store.steps) :
             o.store.steps[k] \in {Result(cur, k - 1), NilValue}

\* C7: in named mode no entry is ever stored under the name of a step other
\* than the ones executed so far, and when step i has completed the mapping
\* holds, under the name of step i, its primary result, or the null
\* placeholder when the step has no primary action.
C7_NamedEntries ==
    (o.useMaps /\ pc \in {"primary", "test", "dump", "bind", "next"}) =>
        /\ DOMAIN o.store.stepMaps \subseteq {o.steps[k].key : k \in 1..(i + 1)}
        /\ pc = "next" =>
             /\ o.steps[i + 1].key \in DOMAIN o.store.stepMaps
             /\ o.store.stepMaps[o.steps[i + 1].key] =
                  IF "primary" \in Runnable(o.steps[i + 1]) THEN Result(cur, i)
                  ELSE NilValue

\* The positions at which operator.run has been entered.
Running == pc \in {"primary", "test", "dump", "bind", "next", "returned", "panic"}

\* C9: the scenario guard.  The guard is evaluated only when present, once,
\* before anything else; when its value is not true (and its evaluation did
\* not fail) the run returns nil with the skipped flag set, having invoked no
\* runner and leaving the store empty; when it is absent or true the skipped
\* flag stays false and a run that returns nil has run every step.
C9_Guard ==
    LET guards == {k \in 1..Len(trace) : trace[k].act = "guard"}
    IN  /\ guards \subseteq {1}
        /\ Running => (o.cond # "" <=> guards = {1})
        /\ (guards = {1} /\ trace[1].val \notin {"true", "error"}) =>
              /\ o.skipped
              /\ pc = "returned" /\ ret = NilErr
              /\ Len(trace) = 1
              /\ o.store.steps = <<>>
              /\ o.store.stepMaps = EmptyMap
              /\ o.store.bindVars = EmptyMap
        /\ (Running /\ (o.cond = "" \/ trace[1].val = "true")) =>
              /\ ~o.skipped
              /\ (pc = "returned" /\ ret = NilErr) =>
                    /\ AllStepsRan(cur)
                    /\ Len(o.steps) > 0 => i = Len(o.steps) - 1

\* A scenario of two steps skipped because its guard evaluated to a value
\* that is neither true nor false.
C9_Witness ==
    /\ o.skipped
    /\ Len(trace) = 1 /\ trace[1].val = "other"
    /\ Len(o.steps) = 2

\* The step results the flattened view exposes under `steps`.
Visible(s) ==
    LET v == toMap(s)[storeStepsKey]
    IN  {v.list[k] : k \in 1..Len(v.list)} \cup {v.map[k] : k \in DOMAIN v.map}

\* C8: the storage mode.  An operator in named mode has a name on every
\* step; a book that names some but not all of its steps gives a positional
\* operator; the operator and its store agree on the mode; and whatever
\* record has written is among the step results the flattened view exposes.
C8_StorageMode ==
    /\ o.useMaps => \A k \in 1..Len(o.steps) : o.steps[k].key # ""
    /\ (pc = "new" /\ Len(bk.stepKeys) # bk.nSteps) => ~o.useMaps
    /\ o.store.useMaps = o.useMaps
    /\ \A k \in 1..Len(trace) :
         (trace[k].act = "record" /\ trace[k].ok) =>
            Result(trace[k].op, trace[k].step) \in Visible(o.store)

\* The entries of the history at which Run of operator p was called, and at
\* which it returned.
Calls(p) == {k \in 1..Len(trace) : trace[k].act = "Run" /\ trace[k].op = p}
Returns(p) == {k \in 1..Len(trace) : trace[k].act = "return" /\ trace[k].op = p}

\* C10: operators.RunN.  The scenarios are run in list order, each at most
\* once and only after the one before it has returned, and everything a
\* scenario does happens between its call and its return.  When RunN returns
\* an error, it is the error of a failFast scenario that failed, no scenario
\* after it was run, and no failFast scenario before it failed; when it
\* returns nil every scenario was run and returned, and none that failed has
\* failFast set.
C10_RunN ==
    /\ \A p \in 1..Len(ops) :
         /\ Cardinality(Calls(p)) <= 1 /\ Cardinality(Returns(p)) <= 1
         /\ \A k \in Calls(p) : \A q \in 1..(p - 1) : \E r \in Returns(q) : r < k
         /\ \A r \in Returns(p) : \E k \in Calls(p) : k < r
    /\ \A k \in 1..Len(trace) :
         (IsRunner(trace[k]) \/ trace[k].act = "guard") =>
            /\ \E c \in Calls(trace[k].op) : c < k
            /\ \A r \in Returns(trace[k].op) : k < r
    /\ (pc = "batchdone" /\ batchRet # NilErr) =>
         \E p \in 1..Len(ops) :
            /\ ops[p].failFast
            /\ \E r \in Returns(p) : trace[r].err = batchRet /\ r = Len(trace)
            /\ \A q \in (p + 1)..Len(ops) : Calls(q) = {}
            /\ \A q \in 1..(p - 1) : \A r \in Returns(q) : ops[q].failFast => trace[r].ok
    /\ (pc = "batchdone" /\ batchRet = NilErr) =>
         \A p \in 1..Len(ops) :
            /\ Returns(p) # {}
            /\ \A r \in Returns(p) : ~trace[r].ok => ~ops[p].failFast

\* A batch of three: the first scenario failed without failFast, the second
\* was run and failed with failFast, and RunN returned its error without
\* running the third.
C10_Witness ==
    /\ pc = "batchdone" /\ batchRet # NilErr
    /\ Len(ops) = 3
    /\ ~ops[1].failFast /\ \E r \in Returns(1) : ~trace[r].ok
    /\ ops[2].failFast /\ \E r \in Returns(2) : trace[r].err = batchRet
    /\ Calls(3) = {}

====
